---- MODULE Spec2Model ----
(***************************************************************************)
(* Model of adapt-authoring-roles (RolesModule): the super-role lookups    *)
(* getSuperRoleId and isTargetSuper, the request guard onUpdateRoles and   *)
(* the access-check guard onCheckUserAccess, run by the principal CRUD     *)
(* pipeline (requestHook, accessCheckHook, then the write).                *)
(*                                                                         *)
(* The guards are modelled from their newest text in the repository, the   *)
(* method bodies of src/tests/RolesModule.spec.js lines 73-119; the file   *)
(* src/lib/RolesModule.js holds earlier revisions without getSuperRoleId   *)
(* and isTargetSuper.                                                      *)
(*                                                                         *)
(* Further specifications, each with its own initial states and steps:     *)
(*   SpecScopes     getScopesForRole, one step per loop iteration          *)
(*   SpecIds        shortNamesToIds, its lookups completing in any order   *)
(*   SpecReconcile  initConfigRoles, its lookups and writes interleaved    *)
(*                  and failing in every combination                       *)
(*   SpecDefaults   initDefaultRoles and the users preInsertHook           *)
(*   SpecBoot       init: the reconciliation, the defaults, the taps       *)
(*   SpecCache      initDefaultRoles step by step, with roleCache          *)
(*   SpecGrant      onUpdateRoles, then getScopesForRole on what it let    *)
(*                  through                                                *)
(* SpecReconcileFair and SpecBootFair add the fairness of the store's      *)
(* answers and of the event loop.                                          *)
(* Their code is that of src/lib/RolesModule.js lines 9-103.               *)
(***************************************************************************)
EXTENDS Integers, Sequences, FiniteSets

VARIABLES
  roles,   \* the persisted role collection, in store order
  users,   \* the persisted principals: id -> None or Some(record)
  pc,      \* where the pipeline is: idle, hooked, checked, returned
  req,     \* the request in flight (None when idle)
  upd,     \* outcome of onUpdateRoles for req (None before it ran)
  acc,     \* outcome of onCheckUserAccess for req (None before it ran)
  ret,     \* outcome of a direct getSuperRoleId / isTargetSuper call
  walk,    \* the getScopesForRole call in progress (None when there is none)
  ids,     \* the shortNamesToIds call in progress (None when there is none)
  rec,     \* the initConfigRoles run in progress (None when there is none)
  dr,      \* what initDefaultRoles set up, and the payload given to its hook
  boot     \* where init() is, what it logged and tapped (None when not booting)

vars == <<roles, users, pc, req, upd, acc, ret, walk, ids, rec, dr, boot>>

-----------------------------------------------------------------------------
(* JavaScript values *)

\* undefined or a missing field (None), and a present value (Some)
None == <<>>
Some(x) == <<x>>
IsSome(o) == o # <<>>
Get(o) == o[1]

\* a string id, and an ObjectId holding the same hex text
Str(h) == [t |-> "str", v |-> h]
Oid(h) == [t |-> "oid", v |-> h]

\* x.toString(): an ObjectId gives its hex string, a string gives itself
toString(x) == [t |-> "str", v |-> x.v]

\* Array.prototype.includes: strict equality on the elements
includes(list, x) == \E i \in 1..Len(list) : list[i] = x

-----------------------------------------------------------------------------
(* Bounds and input sets *)

\* longest role list a request carries or a principal holds
MaxRoles == 2

RoleHex == {"a", "s"}
Principals == {"u1", "u2"}
Methods == {"GET", "POST", "PUT", "DELETE"}

Rank(h) == IF h = "a" THEN 1 ELSE 2

\* role lists without repeats, in ascending id order
HexLists ==
  {l \in UNION {[1..n -> RoleHex] : n \in 0..MaxRoles} :
     \A i \in 1..(Len(l) - 1) : Rank(l[i]) < Rank(l[i + 1])}

StrList(l) == [i \in 1..Len(l) |-> Str(l[i])]

\* the role collections the store may hold: the configured catalog, a
\* catalog whose widest role is not exactly ["*:*"], and one with two
\* roles of exactly ["*:*"]
Role(h, n, sc) == [_id |-> Oid(h), shortName |-> n, scopes |-> sc]
RoleStores ==
  { << Role("a", "authuser", <<"read:me">>), Role("s", "superuser", <<"*:*">>) >>,
    << Role("a", "authuser", <<"read:me">>), Role("s", "admin", <<"*:*", "read:me">>) >>,
    << Role("a", "root", <<"*:*">>), Role("s", "superuser", <<"*:*">>) >> }

\* the requesters: req.auth of a super user, and of two ordinary users
Auths ==
  { [isSuper |-> TRUE,  scopes |-> {},                             user |-> Oid("q0")],
    [isSuper |-> FALSE, scopes |-> {"read:roles"},                 user |-> Oid("q1")],
    [isSuper |-> FALSE, scopes |-> {"assign:roles", "read:roles"}, user |-> Oid("q2")] }

\* the request contexts the framework hands to the hooks
Requests ==
  [ method    : Methods,
    modifying : BOOLEAN,                             \* req.apiData.modifying
    auth      : Auths,                               \* req.auth
    roles     : {None} \cup {Some(StrList(l)) : l \in HexLists},  \* req.apiData.data.roles
    query_id  : {None} \cup {Some(p) : p \in Principals},         \* req.apiData.query._id
    params_id : {None, Some("u1")},                  \* req.params._id
    body_id   : {None, Some("u2")} ]                 \* req.body._id

-----------------------------------------------------------------------------
(* Collaborators: the role store and the principal store *)

\* this.find({ scopes: sc }): the roles whose scopes equal sc, in store order
findByScopes(sc) == SelectSeq(roles, LAMBDA r : r.scopes = sc)

\* users.find({ _id }, { projection: { roles: 1 } }): the matching principals
usersFind(_id) ==
  IF IsSome(_id) /\ IsSome(users[Get(_id)]) THEN <<Get(users[Get(_id)])>> ELSE <<>>

\* what a call did: the error it threw ("none" when it returned), the value
\* it returned, its log events, its store lookups and its disavowUser calls
Outcome(e, v, l, c, d) ==
  [err |-> e, val |-> v, logs |-> l, calls |-> c, disavowed |-> d]

-----------------------------------------------------------------------------
(* RolesModule *)

\* getSuperRoleId taking any role that holds "*:*" among its scopes
getSuperRoleId_anyWildcard ==
  LET found == SelectSeq(roles, LAMBDA r : includes(r.scopes, "*:*")) IN
  IF found = <<>>
    THEN Outcome("TypeError", None, <<>>, <<"roles.find">>, <<>>)
    ELSE Outcome("none", Some(toString(found[1]._id)), <<>>, <<"roles.find">>, <<>>)

\* const [superRole] = await this.find({ scopes: ['*:*'] })
\* return superRole._id.toString()
getSuperRoleId ==
  LET found == findByScopes(<<"*:*">>) IN
  IF found = <<>>
    THEN Outcome("TypeError", None, <<>>, <<"roles.find">>, <<>>)
    ELSE Outcome("none", Some(toString(found[1]._id)), <<>>, <<"roles.find">>, <<>>)

\* isTargetSuper without the length test: any of the roles is the super role
isTargetSuper_anyRole(_id) ==
  LET found == usersFind(_id) IN
  IF found = <<>>
    THEN Outcome("TypeError", None, <<>>, <<"users.find">>, <<>>)
    ELSE
      LET user == found[1]
          g == getSuperRoleId
      IN
      IF Len(user.roles) = 0
        THEN Outcome("none", Some(FALSE), <<>>, <<"users.find">>, <<>>)
      ELSE IF g.err # "none"
        THEN Outcome(g.err, None, <<>>, <<"users.find">> \o g.calls, <<>>)
      ELSE Outcome("none",
                   Some(\E i \in 1..Len(user.roles) :
                          toString(user.roles[i]) = Get(g.val)),
                   <<>>, <<"users.find">> \o g.calls, <<>>)

\* const [user] = await users.find({ _id }, { projection: { roles: 1 } })
\* return user.roles.length === 1 &&
\*   user.roles[0].toString() === await this.getSuperRoleId()
isTargetSuper(_id) ==
  LET found == usersFind(_id) IN
  IF found = <<>>
    THEN Outcome("TypeError", None, <<>>, <<"users.find">>, <<>>)
    ELSE
      LET user == found[1] IN
      IF Len(user.roles) # 1
        THEN Outcome("none", Some(FALSE), <<>>, <<"users.find">>, <<>>)
        ELSE
          LET g == getSuperRoleId IN
          IF g.err # "none"
            THEN Outcome(g.err, None, <<>>, <<"users.find">> \o g.calls, <<>>)
            ELSE Outcome("none", Some(toString(user.roles[1]) = Get(g.val)), <<>>,
                         <<"users.find">> \o g.calls, <<>>)

\* a guard that goes on only for a request whose data carries a roles field
Engages_rolesOnly(r) == r.modifying = FALSE /\ IsSome(r.roles)

\* the guard goes on past its first return: the phase flag is exactly false,
\* and the request is a DELETE or its data carries a roles field
Engages(r) ==
  ~ ( r.modifying # FALSE
      \/ (r.method # "DELETE" /\ ~IsSome(r.roles)) )

\* reject(reason): one error log event, then throw UNAUTHORISED
reject(r, reason, calls) ==
  Outcome("UNAUTHORISED", None,
          << <<"error", "UNAUTHORISED", toString(r.auth.user), reason>> >>,
          calls, <<>>)

\* the scope test satisfied by any scope on roles
hasAssignScope_anyRolesScope(r) ==
  r.auth.scopes \cap {"assign:roles", "read:roles"} # {}

\* req.auth.scopes.includes('assign:roles')
hasAssignScope(r) == "assign:roles" \in r.auth.scopes

\* the body id taken before the route parameter
disavowId_bodyFirst(r) == IF IsSome(r.body_id) THEN r.body_id ELSE r.params_id

\* userId: req.params._id || req.body._id
disavowId(r) == IF IsSome(r.params_id) THEN r.params_id ELSE r.body_id

\* if (req.method !== 'POST') await auth.authentication.disavowUser({ userId })
disavow(r, calls) ==
  IF r.method # "POST"
    THEN Outcome("none", None, <<>>, calls, <<disavowId(r)>>)
    ELSE Outcome("none", None, <<>>, calls, <<>>)

\* the super role test passing only a list that is the super role alone
assignsSuperRole_alone(list, id) == list = <<id>>

\* req.apiData.data.roles.includes(await this.getSuperRoleId())
assignsSuperRole(list, id) == includes(list, id)

\* the bypass never taken: the checks run for every requester
skipsChecks_never(r) == FALSE

\* if (!req.auth.isSuper) { ...checks... }
skipsChecks(r) == r.auth.isSuper

\* the checks with the target tested before the assigned ids
checks_targetFirst(r) ==
  IF ~hasAssignScope(r)
    THEN reject(r, "assign role", <<>>)
  ELSE
    LET t == isTargetSuper(r.query_id) IN
    IF t.err # "none"
      THEN Outcome(t.err, None, <<>>, t.calls, <<>>)
    ELSE IF Get(t.val)
      THEN reject(r, "modify superuser", t.calls)
    ELSE IF ~IsSome(r.roles)
      THEN Outcome("TypeError", None, <<>>, t.calls, <<>>)
    ELSE
      LET g == getSuperRoleId IN
      IF g.err # "none"
        THEN Outcome(g.err, None, <<>>, t.calls \o g.calls, <<>>)
      ELSE IF assignsSuperRole(Get(r.roles), Get(g.val))
        THEN reject(r, "assign superuser", t.calls \o g.calls)
      ELSE Outcome("none", None, <<>>, t.calls \o g.calls, <<>>)

\* the three checks made for a requester that is not super
checks(r) ==
  IF ~hasAssignScope(r)
    THEN reject(r, "assign role", <<>>)
  ELSE IF ~IsSome(r.roles)
    \* req.apiData.data.roles.includes: the property read of undefined throws
    \* before the argument is evaluated
    THEN Outcome("TypeError", None, <<>>, <<>>, <<>>)
  ELSE
    LET g == getSuperRoleId IN
    IF g.err # "none"
      THEN Outcome(g.err, None, <<>>, g.calls, <<>>)
    ELSE IF assignsSuperRole(Get(r.roles), Get(g.val))
      THEN reject(r, "assign superuser", g.calls)
    ELSE
      LET t == isTargetSuper(r.query_id) IN
      IF t.err # "none"
        THEN Outcome(t.err, None, <<>>, g.calls \o t.calls, <<>>)
      ELSE IF Get(t.val)
        THEN reject(r, "modify superuser", g.calls \o t.calls)
      ELSE Outcome("none", None, <<>>, g.calls \o t.calls, <<>>)

\* a guard that invalidates the session before it makes its checks
onUpdateRoles_disavowFirst(r) ==
  IF ~Engages(r)
    THEN Outcome("none", None, <<>>, <<>>, <<>>)
  ELSE IF skipsChecks(r)
    THEN disavow(r, <<>>)
  ELSE
    LET c == checks(r) IN
    Outcome(c.err, c.val, c.logs, c.calls, disavow(r, c.calls).disavowed)

onUpdateRoles(r) ==
  IF ~Engages(r)
    THEN Outcome("none", None, <<>>, <<>>, <<>>)
  ELSE IF skipsChecks(r)
    THEN disavow(r, <<>>)
  ELSE
    LET c == checks(r) IN
    IF c.err # "none" THEN c ELSE disavow(r, c.calls)

\* the access check that blocks only requesters that are not super
onCheckUserAccess_nonSuperOnly(r) ==
  IF ~r.modifying
    THEN Outcome("none", Some(TRUE), <<>>, <<>>, <<>>)
    ELSE
      LET t == isTargetSuper(r.query_id) IN
      IF t.err # "none"
        THEN Outcome(t.err, None, <<>>, t.calls, <<>>)
      ELSE IF Get(t.val) /\ ~r.auth.isSuper
        THEN Outcome("UNAUTHORISED", None, <<>>, t.calls, <<>>)
      ELSE Outcome("none", Some(TRUE), <<>>, t.calls, <<>>)

\* the access check that queries the target before it reads the flag
onCheckUserAccess_lookupFirst(r) ==
  LET t == isTargetSuper(r.query_id) IN
  IF t.err # "none"
    THEN Outcome(t.err, None, <<>>, t.calls, <<>>)
  ELSE IF Get(t.val) /\ r.modifying
    THEN Outcome("UNAUTHORISED", None, <<>>, t.calls, <<>>)
  ELSE Outcome("none", Some(TRUE), <<>>, t.calls, <<>>)

\* if (req.apiData.modifying && await this.isTargetSuper(req.apiData.query._id))
\*   throw this.app.errors.UNAUTHORISED
\* return true
onCheckUserAccess(r) ==
  IF ~r.modifying
    THEN Outcome("none", Some(TRUE), <<>>, <<>>, <<>>)
    ELSE
      LET t == isTargetSuper(r.query_id) IN
      IF t.err # "none"
        THEN Outcome(t.err, None, <<>>, t.calls, <<>>)
      ELSE IF Get(t.val)
        THEN Outcome("UNAUTHORISED", None, <<>>, t.calls, <<>>)
      ELSE Outcome("none", Some(TRUE), <<>>, t.calls, <<>>)

-----------------------------------------------------------------------------
(* The principal CRUD pipeline around the hooks *)

\* the roles the write stores: the request's ids, cast to ObjectIds
castRoles(r) ==
  IF IsSome(r.roles)
    THEN [i \in 1..Len(Get(r.roles)) |-> Oid(Get(r.roles)[i].v)]
    ELSE <<>>

targetExists(r) == IsSome(r.query_id) /\ IsSome(users[Get(r.query_id)])

\* the principal collection after the request's write
written(r, p) ==
  CASE r.method = "POST" ->
         IF users[p] = None
           THEN [users EXCEPT ![p] = Some([roles |-> castRoles(r)])]
           ELSE users
    [] r.method = "PUT" ->
         IF targetExists(r) /\ IsSome(r.roles)
           THEN [users EXCEPT ![Get(r.query_id)] = Some([roles |-> castRoles(r)])]
           ELSE users
    [] r.method = "DELETE" ->
         IF targetExists(r)
           THEN [users EXCEPT ![Get(r.query_id)] = None]
           ELSE users
    [] OTHER -> users

Init ==
  /\ roles \in RoleStores
  /\ users = [p \in Principals |->
                IF p = "u1" THEN Some([roles |-> <<Oid("s")>>])
                            ELSE Some([roles |-> <<Oid("a")>>])]
  /\ pc = "idle"
  /\ req = None
  /\ upd = None
  /\ acc = None
  /\ ret = None
  /\ walk = None
  /\ ids = None
  /\ rec = None
  /\ dr = None
  /\ boot = None

\* users.requestHook / authlocal.registerHook invoke onUpdateRoles(req)
RequestHook(r) ==
  /\ pc = "idle"
  /\ req' = Some(r)
  /\ upd' = Some(onUpdateRoles(r))
  /\ pc' = "hooked"
  /\ UNCHANGED <<roles, users, acc, ret, walk, ids, rec, dr, boot>>

\* users.accessCheckHook invokes onCheckUserAccess(req)
AccessCheckHook ==
  /\ pc = "hooked"
  /\ Get(upd).err = "none"
  /\ acc' = Some(onCheckUserAccess(Get(req)))
  /\ pc' = "checked"
  /\ UNCHANGED <<roles, users, req, upd, ret, walk, ids, rec, dr, boot>>

\* a hook threw: the request ends without a write
Respond ==
  /\ \/ pc = "hooked" /\ Get(upd).err # "none"
     \/ pc = "checked" /\ Get(acc).err # "none"
  /\ pc' = "idle"
  /\ req' = None
  /\ upd' = None
  /\ acc' = None
  /\ UNCHANGED <<roles, users, ret, walk, ids, rec, dr, boot>>

\* both hooks allowed the request: the principal store is written
Write ==
  /\ pc = "checked"
  /\ Get(acc).err = "none"
  /\ \E p \in Principals : users' = written(Get(req), p)
  /\ pc' = "idle"
  /\ req' = None
  /\ upd' = None
  /\ acc' = None
  /\ UNCHANGED <<roles, ret, walk, ids, rec, dr, boot>>

\* a direct call of getSuperRoleId()
CallGetSuperRoleId ==
  /\ pc = "idle"
  /\ ret' = Some([fn |-> "getSuperRoleId", arg |-> None, out |-> getSuperRoleId])
  /\ pc' = "returned"
  /\ UNCHANGED <<roles, users, req, upd, acc, walk, ids, rec, dr, boot>>

\* a direct call of isTargetSuper(_id)
CallIsTargetSuper(_id) ==
  /\ pc = "idle"
  /\ ret' = Some([fn |-> "isTargetSuper", arg |-> _id, out |-> isTargetSuper(_id)])
  /\ pc' = "returned"
  /\ UNCHANGED <<roles, users, req, upd, acc, walk, ids, rec, dr, boot>>

Return ==
  /\ pc = "returned"
  /\ ret' = None
  /\ pc' = "idle"
  /\ UNCHANGED <<roles, users, req, upd, acc, walk, ids, rec, dr, boot>>

Next ==
  \/ \E r \in Requests : RequestHook(r)
  \/ AccessCheckHook
  \/ Respond
  \/ Write
  \/ CallGetSuperRoleId
  \/ \E p \in Principals : CallIsTargetSuper(Some(p))
  \/ CallIsTargetSuper(None)
  \/ Return

Spec == Init /\ [][Next]_vars

-----------------------------------------------------------------------------
(* Vocabulary of the properties, stated on the stores and not through the  *)
(* module's own lookups                                                    *)

\* positions of the roles whose scope list is exactly ["*:*"]
SuperRoleIdx == {i \in DOMAIN roles : roles[i].scopes = <<"*:*">>}
SuperRoleExists == SuperRoleIdx # {}
\* the super role id: that of the first such role in store order
SuperRoleHex ==
  roles[CHOOSE i \in SuperRoleIdx : \A j \in SuperRoleIdx : i <= j]._id.v

Exists(p) == users[p] # None
RolesOf(p) == Get(users[p]).roles
\* a super target: a principal whose whole role list is the one super role
SuperTarget(p) ==
  /\ Exists(p)
  /\ SuperRoleExists
  /\ Len(RolesOf(p)) = 1
  /\ RolesOf(p)[1].v = SuperRoleHex

\* the guard onUpdateRoles has run on the request in flight
Hooked == pc \in {"hooked", "checked"}
\* the access check has run on the request in flight
Checked == pc = "checked"
\* pre-commit phase, and a DELETE or a request carrying a roles field
GuardEngaged(r) ==
  /\ r.modifying = FALSE
  /\ (r.method = "DELETE" \/ r.roles # None)
NonSuper(r) == r.auth.isSuper = FALSE
HoldsAssign(r) == "assign:roles" \in r.auth.scopes
\* the ids being assigned include the super role id
AssignsSuper(r) ==
  /\ r.roles # None
  /\ SuperRoleExists
  /\ \E i \in 1..Len(Get(r.roles)) : Get(r.roles)[i].v = SuperRoleHex
TargetIsSuper(r) == r.query_id # None /\ SuperTarget(Get(r.query_id))
TargetExists(r) == r.query_id # None /\ Exists(Get(r.query_id))

-----------------------------------------------------------------------------
(* C1 *)

\* C1: a write committed for a requester that is not super makes no
\* principal a super target that was not one, and leaves every principal
\* that was a super target as it was (neither changed nor deleted).
C1_NoSuperEscalation ==
  [][ (pc = "checked" /\ pc' = "idle" /\ Get(acc).err = "none" /\ NonSuper(Get(req)))
        => \A p \in Principals :
             /\ (~SuperTarget(p) => ~SuperTarget(p)')
             /\ (SuperTarget(p) => users'[p] = users[p]) ]_vars

-----------------------------------------------------------------------------
(* C2 *)

\* C2: when the guard engages for a requester that is not super and whose
\* scopes lack assign:roles, it rejects with Unauthorized, whatever the
\* assigned roles and the target.
C2_NoScopeRejected ==
  (Hooked /\ GuardEngaged(Get(req)) /\ NonSuper(Get(req)) /\ ~HoldsAssign(Get(req)))
    => Get(upd).err = "UNAUTHORISED"

C2_Witness ==
  /\ Hooked /\ GuardEngaged(Get(req)) /\ NonSuper(Get(req)) /\ ~HoldsAssign(Get(req))
  /\ Get(req).method = "DELETE" /\ Get(req).roles = None
  /\ Get(upd).err = "UNAUTHORISED"

-----------------------------------------------------------------------------
(* C3 *)

\* C3: when the guard engages for a requester that is not super and holds
\* assign:roles, and the assigned ids include the super role id, alone or
\* with others, it rejects with Unauthorized.
C3_AssignSuperRejected ==
  (Hooked /\ GuardEngaged(Get(req)) /\ NonSuper(Get(req)) /\ HoldsAssign(Get(req))
     /\ AssignsSuper(Get(req)))
    => Get(upd).err = "UNAUTHORISED"

C3_Witness ==
  /\ Hooked /\ GuardEngaged(Get(req)) /\ NonSuper(Get(req)) /\ HoldsAssign(Get(req))
  /\ AssignsSuper(Get(req)) /\ Len(Get(Get(req).roles)) = 2
  /\ Get(upd).err = "UNAUTHORISED"

-----------------------------------------------------------------------------
(* C4 *)

\* C4: when the guard engages for a requester that is not super and holds
\* assign:roles, no super role id is assigned and the target is a super
\* target, it rejects with Unauthorized.
C4_ModifySuperRejected ==
  (Hooked /\ GuardEngaged(Get(req)) /\ NonSuper(Get(req)) /\ HoldsAssign(Get(req))
     /\ ~AssignsSuper(Get(req)) /\ TargetIsSuper(Get(req)))
    => Get(upd).err = "UNAUTHORISED"

-----------------------------------------------------------------------------
(* C5 *)

\* C5: for a super requester the engaged guard never rejects, makes no
\* role or principal lookup and logs no error event.
C5_SuperBypasses ==
  (Hooked /\ GuardEngaged(Get(req)) /\ Get(req).auth.isSuper)
    => /\ Get(upd).err = "none"
       /\ Get(upd).calls = <<>>
       /\ Get(upd).logs = <<>>

C5_Witness ==
  /\ Hooked /\ GuardEngaged(Get(req)) /\ Get(req).auth.isSuper
  /\ AssignsSuper(Get(req)) /\ TargetIsSuper(Get(req))
  /\ Get(upd).err = "none"

-----------------------------------------------------------------------------
(* C6 *)

\* C6 as stated: the access check on a modifying request whose target
\* principal exists rejects with Unauthorized exactly when the target is a
\* super target, and otherwise allows (returns true).
C6_AccessCheckIffSuper ==
  (Checked /\ Get(req).modifying /\ TargetExists(Get(req)))
    => /\ (Get(acc).err = "UNAUTHORISED") = TargetIsSuper(Get(req))
       /\ (~TargetIsSuper(Get(req))
             => Get(acc).err = "none" /\ Get(acc).val = Some(TRUE))

\* the store holds no super role and the target has exactly one role: the
\* comparison needs the super role id and the lookup has nothing to return
LookupFails(p) == ~SuperRoleExists /\ Exists(p) /\ Len(RolesOf(p)) = 1

\* C6 amended: as C6, except that with no super role in the store a
\* modifying request on a target with exactly one role fails with the
\* TypeError of getSuperRoleId instead of being allowed.
C6_AccessCheckIffSuperOrFails ==
  (Checked /\ Get(req).modifying /\ TargetExists(Get(req)))
    => /\ (Get(acc).err = "UNAUTHORISED") = TargetIsSuper(Get(req))
       /\ (Get(acc).err = "TypeError") = LookupFails(Get(Get(req).query_id))
       /\ (~TargetIsSuper(Get(req)) /\ ~LookupFails(Get(Get(req).query_id))
             => Get(acc).err = "none" /\ Get(acc).val = Some(TRUE))

C6_Witness ==
  /\ Checked /\ Get(req).modifying /\ TargetIsSuper(Get(req))
  /\ Get(req).auth.isSuper = FALSE
  /\ Get(acc).err = "UNAUTHORISED"

-----------------------------------------------------------------------------
(* C7 *)

\* C7: the access check on a non-modifying request allows (returns true)
\* and makes no principal or role lookup, also when the target is a super
\* target.
C7_NonModifyingAllowed ==
  (Checked /\ ~Get(req).modifying)
    => /\ Get(acc).err = "none"
       /\ Get(acc).val = Some(TRUE)
       /\ Get(acc).calls = <<>>

C7_Witness ==
  /\ Checked /\ ~Get(req).modifying /\ TargetIsSuper(Get(req))
  /\ Get(acc).val = Some(TRUE) /\ Get(acc).calls = <<>>

-----------------------------------------------------------------------------
(* C8 *)

\* C8: for a request that engages the guard and is not rejected, a method
\* other than POST invalidates the session exactly once, for the route
\* parameter id when present and else the body id; POST never does.
C8_DisavowOnce ==
  (Hooked /\ GuardEngaged(Get(req)) /\ Get(upd).err = "none")
    => IF Get(req).method # "POST"
         THEN Get(upd).disavowed =
                << IF Get(req).params_id # None THEN Get(req).params_id
                                                ELSE Get(req).body_id >>
         ELSE Get(upd).disavowed = <<>>

C8_Witness ==
  /\ Hooked /\ GuardEngaged(Get(req)) /\ Get(upd).err = "none"
  /\ NonSuper(Get(req)) /\ Get(req).method = "PUT"
  /\ Get(req).params_id = Some("u1") /\ Get(req).body_id = Some("u2")
  /\ Get(upd).disavowed = <<Some("u1")>>

-----------------------------------------------------------------------------
(* C9 *)

Returned(f) == pc = "returned" /\ Get(ret).fn = f

\* C9 as stated: for an existing principal isTargetSuper returns true if
\* its role list is exactly the one super role id and false otherwise.
C9_IsTargetSuperIff ==
  (Returned("isTargetSuper") /\ Get(ret).arg # None /\ Exists(Get(Get(ret).arg)))
    => /\ Get(ret).out.err = "none"
       /\ Get(ret).out.val = Some(SuperTarget(Get(Get(ret).arg)))

\* C9 amended: as C9 when the store holds a super role or the list has not
\* exactly one element; with no super role and exactly one role the call
\* fails with the TypeError of getSuperRoleId.
C9_IsTargetSuperIffOrFails ==
  (Returned("isTargetSuper") /\ Get(ret).arg # None /\ Exists(Get(Get(ret).arg)))
    => IF LookupFails(Get(Get(ret).arg))
         THEN Get(ret).out.err = "TypeError"
         ELSE /\ Get(ret).out.err = "none"
              /\ Get(ret).out.val = Some(SuperTarget(Get(Get(ret).arg)))

C9_Witness ==
  /\ Returned("isTargetSuper") /\ Get(ret).arg # None
  /\ SuperTarget(Get(Get(ret).arg))
  /\ Get(ret).out.val = Some(TRUE)

-----------------------------------------------------------------------------
(* C10 *)

\* C10 as stated: getSuperRoleId returns the id of the role whose scopes are
\* exactly ["*:*"], and fails with RoleNotFound when there is none.
C10_SuperRoleIdOrRoleNotFound ==
  Returned("getSuperRoleId")
    => IF SuperRoleExists
         THEN Get(ret).out.err = "none" /\ Get(ret).out.val = Some(Str(SuperRoleHex))
         ELSE Get(ret).out.err = "RoleNotFound"

\* C10 amended: getSuperRoleId returns the id (as a string) of the first
\* role whose scopes are exactly ["*:*"], and fails with a TypeError when
\* there is none.
C10_SuperRoleIdOrTypeError ==
  Returned("getSuperRoleId")
    => IF SuperRoleExists
         THEN Get(ret).out.err = "none" /\ Get(ret).out.val = Some(Str(SuperRoleHex))
         ELSE Get(ret).out.err = "TypeError"

C10_Witness ==
  /\ Returned("getSuperRoleId") /\ ~SuperRoleExists
  /\ Get(ret).out.err = "TypeError"

-----------------------------------------------------------------------------
(* getScopesForRole: the walk along the extends chain                      *)

\* the iterations of the do/while loop a walk is followed for
MaxWalk == 4

ShortNames == {"authuser", "contentcreator", "superuser"}

\* what a role's extends field holds: nothing, the short name of a
\* persisted role, or a name no persisted role has
Extends == {None} \cup {Some(n) : n \in ShortNames \cup {"ghost"}}

RoleExt(h, n, sc, ext) ==
  [_id |-> Oid(h), shortName |-> n, scopes |-> sc, extends |-> ext]

\* the configured catalog under every choice of the extends fields
ChainStores ==
  { << RoleExt("a", "authuser", <<"read:me">>, e1),
       RoleExt("c", "contentcreator", <<"write:content", "read:me">>, e2),
       RoleExt("s", "superuser", <<"*:*">>, e3) >> :
    e1 \in Extends, e2 \in Extends, e3 \in Extends }

\* the ids a caller passes: strings and ObjectIds, "x" matching no role
WalkIds == {Str(h) : h \in {"a", "c", "s", "x"}} \cup {Oid(h) : h \in {"a", "s", "x"}}

\* allRoles.find(r => r._id.toString() === _id.toString()): the first role
\* that passes, or undefined
findById(allRoles, _id) ==
  LET found == SelectSeq(allRoles, LAMBDA r : toString(r._id) = toString(_id)) IN
  IF found = <<>> THEN None ELSE Some(found[1])

\* allRoles.find(r => r.shortName === role.extends)
findExtended(allRoles, role) ==
  LET found == SelectSeq(allRoles, LAMBDA r : Some(r.shortName) = role.extends) IN
  IF found = <<>> THEN None ELSE Some(found[1])

\* const allRoles = await this.find(); const scopes = []
\* let role = allRoles.find(r => r._id.toString() === _id.toString())
begin(allRoles, _id) ==
  [ _id      |-> _id,
    allRoles |-> allRoles,
    role     |-> findById(allRoles, _id),
    scopes   |-> <<>>,
    path     |-> <<>>,            \* the roles whose scopes were pushed
    status   |-> "running" ]

\* an iteration that pushes only the scopes not yet in the list
iterate_unique(w) ==
  IF w.role = None
    THEN [w EXCEPT !.status = "TypeError"]
    ELSE LET role == Get(w.role)
             next == findExtended(w.allRoles, role)
         IN  [w EXCEPT
                !.scopes = @ \o SelectSeq(role.scopes, LAMBDA x : ~includes(w.scopes, x)),
                !.path   = Append(@, role.shortName),
                !.role   = next,
                !.status = IF next = None THEN "returned" ELSE "running"]

\* an iteration of a loop that tests role before its body (while, not do)
iterate_testFirst(w) ==
  IF w.role = None
    THEN [w EXCEPT !.status = "returned"]
    ELSE LET role == Get(w.role)
             next == findExtended(w.allRoles, role)
         IN  [w EXCEPT
                !.scopes = @ \o role.scopes,
                !.path   = Append(@, role.shortName),
                !.role   = next,
                !.status = IF next = None THEN "returned" ELSE "running"]

\* one iteration of do { ... } while (role): role.scopes throws a TypeError
\* when role is undefined; the loop ends when no role has the short name
\* that extends holds
iterate(w) ==
  IF w.role = None
    THEN [w EXCEPT !.status = "TypeError"]
    ELSE LET role == Get(w.role)
             next == findExtended(w.allRoles, role)
         IN  [w EXCEPT
                !.scopes = @ \o role.scopes,
                !.path   = Append(@, role.shortName),
                !.role   = next,
                !.status = IF next = None THEN "returned" ELSE "running"]

\* what the call hands its caller: the scope list when it returned
scopesOf(w) == IF w.status = "returned" THEN Some(w.scopes) ELSE None

InitScopes ==
  /\ roles \in ChainStores
  /\ users = [p \in Principals |-> None]
  /\ pc = "idle"
  /\ req = None
  /\ upd = None
  /\ acc = None
  /\ ret = None
  /\ walk = None
  /\ ids = None
  /\ rec = None
  /\ dr = None
  /\ boot = None

\* getScopesForRole(_id) up to its loop
CallGetScopesForRole(_id) ==
  /\ pc = "idle"
  /\ walk' = Some(begin(roles, _id))
  /\ pc' = "walking"
  /\ UNCHANGED <<roles, users, req, upd, acc, ret, ids, rec, dr, boot>>

\* the next iteration of its loop
Iterate ==
  /\ pc = "walking"
  /\ Get(walk).status = "running"
  /\ Len(Get(walk).path) < MaxWalk
  /\ walk' = Some(iterate(Get(walk)))
  /\ UNCHANGED <<roles, users, pc, req, upd, acc, ret, ids, rec, dr, boot>>

\* the call returned or threw
EndWalk ==
  /\ pc = "walking"
  /\ Get(walk).status # "running"
  /\ walk' = None
  /\ pc' = "idle"
  /\ UNCHANGED <<roles, users, req, upd, acc, ret, ids, rec, dr, boot>>

NextScopes ==
  \/ \E _id \in WalkIds : CallGetScopesForRole(_id)
  \/ Iterate
  \/ EndWalk

SpecScopes == InitScopes /\ [][NextScopes]_vars

-----------------------------------------------------------------------------
(* Vocabulary of the chain properties, stated on the role collection       *)

\* the role a role extends: the persisted role whose short name its extends
\* field holds
HasParent(all, r) ==
  \E i \in 1..Len(all) : Some(all[i].shortName) = r.extends
ParentOf(all, r) ==
  all[CHOOSE i \in 1..Len(all) : Some(all[i].shortName) = r.extends]

\* the roles from r up its chain, at most n of them
RECURSIVE ChainOf(_, _, _)
ChainOf(all, r, n) ==
  IF n = 0 THEN <<>>
  ELSE IF HasParent(all, r) THEN <<r>> \o ChainOf(all, ParentOf(all, r), n - 1)
  ELSE <<r>>

\* a collection is acyclic when no chain is longer than the collection
Acyclic(all) ==
  \A i \in 1..Len(all) : Len(ChainOf(all, all[i], Len(all) + 1)) <= Len(all)

RECURSIVE Concat(_)
Concat(chain) ==
  IF chain = <<>> THEN <<>> ELSE Head(chain).scopes \o Concat(Tail(chain))

RECURSIVE SumLen(_)
SumLen(chain) ==
  IF chain = <<>> THEN 0 ELSE Len(Head(chain).scopes) + SumLen(Tail(chain))

Walking == pc = "walking"
WalkEnded == Walking /\ Get(walk).status # "running"
Known(all, _id) == \E i \in 1..Len(all) : all[i]._id.v = _id.v
StartOf(all, _id) == all[CHOOSE i \in 1..Len(all) : all[i]._id.v = _id.v]
ChainFrom(all, _id) == ChainOf(all, StartOf(all, _id), Len(all))

\* C11: in an acyclic role collection, getScopesForRole returns the scope
\* lists of the starting role, its parent, its grandparent and so on up to
\* the first role without a persisted parent, concatenated in that order
\* with repeated scopes kept: as many scopes as the chain's lists hold.
C11_ChainConcatenation ==
  (WalkEnded /\ Known(Get(walk).allRoles, Get(walk)._id) /\ Acyclic(Get(walk).allRoles))
    => LET w == Get(walk)
           chain == ChainFrom(w.allRoles, w._id) IN
       /\ scopesOf(w) = Some(Concat(chain))
       /\ Len(w.scopes) = SumLen(chain)

\* a three-role chain whose lists repeat a scope was walked to its root
C11_Witness ==
  /\ WalkEnded
  /\ Acyclic(Get(walk).allRoles)
  /\ Get(walk).status = "returned"
  /\ Len(ChainFrom(Get(walk).allRoles, Get(walk)._id)) = 3
  /\ \E i, j \in 1..Len(Get(walk).scopes) :
        i # j /\ Get(walk).scopes[i] = Get(walk).scopes[j]

\* C12 as stated: getScopesForRole called with an id that matches no
\* persisted role fails with a RoleNotFound error and returns no scope list.
C12_UnknownIdRoleNotFound ==
  (WalkEnded /\ ~Known(Get(walk).allRoles, Get(walk)._id))
    => Get(walk).status = "RoleNotFound" /\ scopesOf(Get(walk)) = None

\* C12 amended: getScopesForRole called with an id that matches no persisted
\* role fails with a TypeError and returns no scope list.
C12_UnknownIdTypeError ==
  (WalkEnded /\ ~Known(Get(walk).allRoles, Get(walk)._id))
    => Get(walk).status = "TypeError" /\ scopesOf(Get(walk)) = None

\* a call with an unknown id on a populated collection ended
C12_Witness ==
  /\ WalkEnded
  /\ Get(walk).allRoles # <<>>
  /\ ~Known(Get(walk).allRoles, Get(walk)._id)

\* C13: getScopesForRole stops at the first role its walk meets again (a
\* role that extends itself included) and fails with an InheritanceCycle
\* error, so no walk pushes the scopes of a role twice.
C13_StopsAtRevisit ==
  Walking =>
    LET w == Get(walk) IN
    /\ \A i, j \in 1..Len(w.path) : w.path[i] = w.path[j] => i = j
    /\ w.status = "running" =>
         \A i \in 1..Len(w.path) : w.path[i] # Get(w.role).shortName

-----------------------------------------------------------------------------
(* shortNamesToIds: concurrent lookups joined by Promise.all               *)

\* longest list of short names a call is given
MaxNames == 2

\* the short names a configuration may list; no catalog holds "editor"
Names == {"authuser", "superuser", "editor"}
NameLists == UNION {[1..n -> Names] : n \in 0..MaxNames}

\* this.find({ shortName: n }): the roles with that short name, in store order
findByShortName(n) == SelectSeq(roles, LAMBDA r : r.shortName = n)

\* const [x] = list: the first element, undefined when there is none
first(list) == IF list = <<>> THEN None ELSE Some(list[1])

\* this.roleCache = {}
emptyCache == [n \in Names |-> None]

\* role._id.toString(): a TypeError when role is undefined
idOf(role) ==
  IF role = None
    THEN [status |-> "rejected", err |-> "TypeError", val |-> None]
    ELSE [status |-> "fulfilled", err |-> "none", val |-> Some(toString(Get(role)._id))]

\* the promise of a mapper that returned or threw as the at-th of its call
settled(name, at, o) ==
  [name |-> name, at |-> at, status |-> o.status, err |-> o.err, val |-> o.val]

\* how many of the promises have settled
settledCount(tasks) ==
  Cardinality({i \in 1..Len(tasks) : tasks[i].status # "pending"})

\* the mapper up to its first await, for the i-th name: a cached role gives
\* the id at once, otherwise the lookup is awaited
RECURSIVE dispatch(_, _, _)
dispatch(names, cache, tasks) ==
  IF Len(tasks) = Len(names) THEN tasks
  ELSE LET r == names[Len(tasks) + 1]
           role == cache[r] IN
       dispatch(names, cache,
         Append(tasks,
           IF role = None
             THEN [name |-> r, status |-> "pending", err |-> "none", val |-> None, at |-> 0]
             ELSE settled(r, settledCount(tasks) + 1, idOf(role))))

\* the positions of the list in the order their promises settled
RECURSIVE bySettlement(_, _)
bySettlement(tasks, n) ==
  IF n > Len(tasks) THEN <<>>
  ELSE LET at == {i \in 1..Len(tasks) : tasks[i].at = n} IN
       (IF at = {} THEN <<>> ELSE <<CHOOSE i \in at : TRUE>>) \o bySettlement(tasks, n + 1)

\* a join that lists the values in the order the promises settled
promiseAll_settlementOrder(tasks) ==
  IF \E i \in 1..Len(tasks) : tasks[i].status = "rejected"
    THEN LET i == CHOOSE i \in 1..Len(tasks) :
                    /\ tasks[i].status = "rejected"
                    /\ \A j \in 1..Len(tasks) :
                         tasks[j].status = "rejected" => tasks[i].at <= tasks[j].at
         IN  [status |-> "rejected", err |-> tasks[i].err, val |-> None]
  ELSE IF \A i \in 1..Len(tasks) : tasks[i].status = "fulfilled"
    THEN [status |-> "fulfilled", err |-> "none",
          val |-> Some([k \in 1..Len(tasks) |-> Get(tasks[bySettlement(tasks, 1)[k]].val)])]
  ELSE [status |-> "pending", err |-> "none", val |-> None]

\* a join that waits for every promise and lists the values of those that
\* were fulfilled
promiseAll_fulfilledOnly(tasks) ==
  IF \A i \in 1..Len(tasks) : tasks[i].status # "pending"
    THEN LET ok == SelectSeq(tasks, LAMBDA t : t.status = "fulfilled") IN
         [status |-> "fulfilled", err |-> "none",
          val |-> Some([k \in 1..Len(ok) |-> Get(ok[k].val)])]
    ELSE [status |-> "pending", err |-> "none", val |-> None]

\* Promise.all: rejected with the error of the promise that was rejected
\* first, fulfilled with the values in list order once all are fulfilled
promiseAll(tasks) ==
  IF \E i \in 1..Len(tasks) : tasks[i].status = "rejected"
    THEN LET i == CHOOSE i \in 1..Len(tasks) :
                    /\ tasks[i].status = "rejected"
                    /\ \A j \in 1..Len(tasks) :
                         tasks[j].status = "rejected" => tasks[i].at <= tasks[j].at
         IN  [status |-> "rejected", err |-> tasks[i].err, val |-> None]
  ELSE IF \A i \in 1..Len(tasks) : tasks[i].status = "fulfilled"
    THEN [status |-> "fulfilled", err |-> "none",
          val |-> Some([k \in 1..Len(tasks) |-> Get(tasks[k].val)])]
  ELSE [status |-> "pending", err |-> "none", val |-> None]

InitIds ==
  /\ roles \in RoleStores
  /\ users = [p \in Principals |-> None]
  /\ pc = "idle"
  /\ req = None
  /\ upd = None
  /\ acc = None
  /\ ret = None
  /\ walk = None
  /\ ids = [roleCache |-> emptyCache, names |-> <<>>, tasks |-> <<>>]
  /\ rec = None
  /\ dr = None
  /\ boot = None

\* shortNamesToIds(names) up to the first await of every mapper
CallShortNamesToIds(names) ==
  /\ pc = "idle"
  /\ ids' = [ids EXCEPT !.names = names,
                        !.tasks = dispatch(names, ids.roleCache, <<>>)]
  /\ pc' = "resolving"
  /\ UNCHANGED <<roles, users, req, upd, acc, ret, walk, rec, dr, boot>>

\* the lookup of the i-th mapper completes: the mapper stores the role in
\* the cache and returns its id
LookupDone(i) ==
  /\ pc = "resolving"
  /\ i \in 1..Len(ids.tasks)
  /\ ids.tasks[i].status = "pending"
  /\ LET role == first(findByShortName(ids.names[i])) IN
     ids' = [ids EXCEPT
               !.roleCache[ids.names[i]] = role,
               !.tasks[i] = settled(ids.names[i], settledCount(ids.tasks) + 1, idOf(role))]
  /\ UNCHANGED <<roles, users, pc, req, upd, acc, ret, walk, rec, dr, boot>>

\* the caller has the result and every mapper has finished
EndCall ==
  /\ pc = "resolving"
  /\ \A i \in 1..Len(ids.tasks) : ids.tasks[i].status # "pending"
  /\ ids' = [ids EXCEPT !.names = <<>>, !.tasks = <<>>]
  /\ pc' = "idle"
  /\ UNCHANGED <<roles, users, req, upd, acc, ret, walk, rec, dr, boot>>

NextIds ==
  \/ \E names \in NameLists : CallShortNamesToIds(names)
  \/ \E i \in 1..MaxNames : LookupDone(i)
  \/ EndCall

SpecIds == InitIds /\ [][NextIds]_vars

-----------------------------------------------------------------------------
(* Vocabulary of the id resolution properties                              *)

Resolving == pc = "resolving"
\* what the caller of shortNamesToIds is given
Resolved == promiseAll(ids.tasks)
Persisted(n) == \E i \in 1..Len(roles) : roles[i].shortName = n
IdOfName(n) == roles[CHOOSE i \in 1..Len(roles) : roles[i].shortName = n]._id.v
AllSettled == \A i \in 1..Len(ids.tasks) : ids.tasks[i].status # "pending"

\* C14: shortNamesToIds returns a list as long as its input whose i-th
\* element is the id of the role with the i-th short name, in whatever order
\* the lookups complete; an empty input gives an empty list.
C14_InputOrderKept ==
  Resolving =>
    /\ Resolved.status = "fulfilled" =>
         /\ Len(Get(Resolved.val)) = Len(ids.names)
         /\ \A i \in 1..Len(ids.names) :
              /\ Persisted(ids.names[i])
              /\ Get(Resolved.val)[i] = Str(IdOfName(ids.names[i]))
    /\ (AllSettled /\ \A i \in 1..Len(ids.names) : Persisted(ids.names[i]))
         => Resolved.status = "fulfilled"
    /\ ids.names = <<>> => Resolved.val = Some(<<>>)

\* two different names were resolved, the second lookup completing first
C14_Witness ==
  /\ Resolving
  /\ Resolved.status = "fulfilled"
  /\ Len(ids.names) = 2
  /\ ids.names[1] # ids.names[2]
  /\ ids.tasks[2].at < ids.tasks[1].at

\* C15 as stated: shortNamesToIds fails with RoleNotFound whenever one of
\* the short names matches no persisted role; the caller gets the failure,
\* never a list.
C15_MissingNameRoleNotFound ==
  (Resolving /\ \E i \in 1..Len(ids.names) : ~Persisted(ids.names[i]))
    => /\ Resolved.status # "fulfilled"
       /\ AllSettled => Resolved.status = "rejected" /\ Resolved.err = "RoleNotFound"

\* C15 amended: shortNamesToIds fails with a TypeError whenever one of the
\* short names matches no persisted role; the caller gets the failure,
\* never a list.
C15_MissingNameTypeError ==
  (Resolving /\ \E i \in 1..Len(ids.names) : ~Persisted(ids.names[i]))
    => /\ Resolved.status # "fulfilled"
       /\ Resolved.val = None
       /\ AllSettled => Resolved.status = "rejected" /\ Resolved.err = "TypeError"

\* a call naming a persisted and a missing role has run to its end
C15_Witness ==
  /\ Resolving
  /\ AllSettled
  /\ \E i, j \in 1..Len(ids.names) : Persisted(ids.names[i]) /\ ~Persisted(ids.names[j])

-----------------------------------------------------------------------------
(* initConfigRoles: the configured role definitions written to the store   *)

\* longest roleDefinitions list, and the runs of initConfigRoles followed
MaxDefs == 2
MaxRuns == 2

\* e.code of a duplicate key error, and of another store error
DuplicateKey == 11000
OtherCode == 500

\* a role definition of the configuration
Def(n, sc, ext) == [shortName |-> n, scopes |-> sc, extends |-> ext]

\* the definitions a configuration may list: two of them share a short name
Defs ==
  { Def("authuser", <<"read:me">>, None),
    Def("authuser", <<"read:me", "read:content">>, None),
    Def("superuser", <<"*:*">>, None) }
DefLists == UNION {[1..n -> Defs] : n \in 0..MaxDefs}

\* the role collection at start-up: empty, or holding roles of an earlier
\* configuration
RecStores ==
  { <<>>,
    << RoleExt("a", "authuser", <<"read:old">>, Some("legacy")) >>,
    << RoleExt("s", "superuser", <<"*:*">>, None),
       RoleExt("a", "authuser", <<"read:me">>, None) >> }

\* the ids the store gives to inserted documents, in the order it gives them
NewIds == <<"n1", "n2", "n3">>
freshId(store) ==
  NewIds[CHOOSE k \in 1..Len(NewIds) :
           /\ \A i \in 1..Len(store) : store[i]._id.v # NewIds[k]
           /\ \A j \in 1..(k - 1) : \E i \in 1..Len(store) : store[i]._id.v = NewIds[j]]

\* what a store call answers: it returns, or throws an error with a code
Done == [ok |-> TRUE, code |-> None]
Thrown(c) == [ok |-> FALSE, code |-> Some(c)]

\* a store without the unique index: an insert is refused for no short name
insertAnswers_noIndex(store, r) == {Done, Thrown(OtherCode)}

\* this.insert(r): the unique index on shortName refuses a second document
\* with a short name; any insert may fail for another reason
insertAnswers(store, r) ==
  (IF \E i \in 1..Len(store) : store[i].shortName = r.shortName
     THEN {Thrown(DuplicateKey)}
     ELSE {Done}) \cup {Thrown(OtherCode)}
inserted(store, r) ==
  Append(store, RoleExt(freshId(store), r.shortName, r.scopes, r.extends))

\* a replace that removes the matching document and stores r as a new one
replaced_reinserted(store, _id, r) ==
  LET rest == SelectSeq(store, LAMBDA d : d._id # _id) IN
  Append(rest, RoleExt(freshId(store), r.shortName, r.scopes, r.extends))

\* a replace that patches: a field the definition leaves out keeps its value
replaced_patched(store, _id, r) ==
  [i \in 1..Len(store) |->
     IF store[i]._id = _id
       THEN RoleExt(_id.v, r.shortName, r.scopes,
                    IF r.extends = None THEN store[i].extends ELSE r.extends)
       ELSE store[i]]

\* mongodb.replace(collection, { _id }, r): the matching document becomes r
\* under its old _id; a replace may fail with either kind of error
replaceAnswers == {Done, Thrown(DuplicateKey), Thrown(OtherCode)}
replaced(store, _id, r) ==
  [i \in 1..Len(store) |->
     IF store[i]._id = _id
       THEN RoleExt(_id.v, r.shortName, r.scopes, r.extends)
       ELSE store[i]]

\* a catch block that warns about every error
caught_anyCode(verb, r, e) ==
  <<[level |-> "warn", text |-> verb, shortName |-> r.shortName]>>

\* catch (e) { if (e.code !== 11000) this.log('warn', `failed to ...`) }
caught(verb, r, e) ==
  IF e.code # Some(DuplicateKey)
    THEN <<[level |-> "warn", text |-> verb, shortName |-> r.shortName]>>
    ELSE <<>>

\* the mapper's promise for definition r, awaiting its lookup
lookingUp(r) ==
  [def |-> r, status |-> "lookup", doc |-> None, writes |-> <<>>,
   answer |-> None, logs |-> <<>>]

\* a mapper that inserts whatever the lookup found
afterFind_insertOnly(t, found) ==
  [t EXCEPT !.status = "write",
            !.doc    = first(found),
            !.writes = <<[op |-> "insert", filter |-> None, doc |-> t.def]>>]

\* const [doc] = await this.find(...); if (doc) the replace is issued with
\* the filter { _id: doc._id }, otherwise the insert
afterFind(t, found) ==
  LET doc == first(found) IN
  [t EXCEPT !.status = "write",
            !.doc    = doc,
            !.writes = IF doc # None
                         THEN <<[op |-> "replace", filter |-> Some(Get(doc)._id), doc |-> t.def]>>
                         ELSE <<[op |-> "insert", filter |-> None, doc |-> t.def]>>]

\* the lookup threw: the mapper's promise is rejected, outside any try
findThrew(t) == [t EXCEPT !.status = "rejected"]

\* the write returned (debug log) or threw (catch block); the mapper returns
afterWrite(t, e) ==
  LET op == t.writes[1].op IN
  [t EXCEPT !.status = "fulfilled",
            !.answer = Some(e),
            !.logs   = IF e.ok
                         THEN <<[level |-> "debug",
                                 text |-> IF op = "insert" THEN "INSERT" ELSE "REPLACE",
                                 shortName |-> t.def.shortName]>>
                         ELSE caught(IF op = "insert" THEN "failed to add" ELSE "failed to update",
                                     t.def, e)]

\* a join that is rejected when one of the promises is
promiseAllSettled_rejecting(tasks) ==
  IF \E i \in 1..Len(tasks) : tasks[i].status = "rejected"
    THEN [status |-> "rejected", val |-> None]
  ELSE IF \A i \in 1..Len(tasks) : tasks[i].status = "fulfilled"
    THEN [status |-> "fulfilled",
          val |-> Some([i \in 1..Len(tasks) |-> tasks[i].status])]
  ELSE [status |-> "pending", val |-> None]

\* a join that is fulfilled as soon as one of the promises has settled
promiseAllSettled_first(tasks) ==
  IF tasks = <<>> \/ \E i \in 1..Len(tasks) : tasks[i].status \in {"fulfilled", "rejected"}
    THEN [status |-> "fulfilled",
          val |-> Some([i \in 1..Len(tasks) |-> tasks[i].status])]
    ELSE [status |-> "pending", val |-> None]

\* Promise.allSettled: fulfilled with one outcome per promise once every
\* promise is fulfilled or rejected; never rejected
promiseAllSettled(tasks) ==
  IF \A i \in 1..Len(tasks) : tasks[i].status \in {"fulfilled", "rejected"}
    THEN [status |-> "fulfilled",
          val |-> Some([i \in 1..Len(tasks) |-> tasks[i].status])]
    ELSE [status |-> "pending", val |-> None]

InitReconcile ==
  /\ roles \in RecStores
  /\ users = [p \in Principals |-> None]
  /\ pc = "idle"
  /\ req = None
  /\ upd = None
  /\ acc = None
  /\ ret = None
  /\ walk = None
  /\ ids = None
  /\ rec \in [defs : DefLists, tasks : {<<>>}, runs : {0}, clean : {TRUE}]
  /\ dr = None
  /\ boot = None

\* initConfigRoles() up to the first await of every mapper
CallInitConfigRoles ==
  /\ pc = "idle"
  /\ rec.runs < MaxRuns
  /\ rec' = [rec EXCEPT !.tasks = [i \in 1..Len(rec.defs) |-> lookingUp(rec.defs[i])]]
  /\ pc' = "reconciling"
  /\ UNCHANGED <<roles, users, req, upd, acc, ret, walk, ids, dr, boot>>

\* the lookup of the i-th mapper returns what the store holds now, and the
\* mapper issues its write
FindDone(i) ==
  /\ pc = "reconciling"
  /\ i \in 1..Len(rec.tasks)
  /\ rec.tasks[i].status = "lookup"
  /\ rec' = [rec EXCEPT
               !.tasks[i] = afterFind(@, findByShortName(rec.tasks[i].def.shortName))]
  /\ UNCHANGED <<roles, users, pc, req, upd, acc, ret, walk, ids, dr, boot>>

\* the lookup of the i-th mapper throws
FindFails(i) ==
  /\ pc = "reconciling"
  /\ i \in 1..Len(rec.tasks)
  /\ rec.tasks[i].status = "lookup"
  /\ rec' = [rec EXCEPT !.tasks[i] = findThrew(@), !.clean = FALSE]
  /\ UNCHANGED <<roles, users, pc, req, upd, acc, ret, walk, ids, dr, boot>>

\* the store performs the write of the i-th mapper, or refuses it
WriteDone(i) ==
  /\ pc = "reconciling"
  /\ i \in 1..Len(rec.tasks)
  /\ rec.tasks[i].status = "write"
  /\ LET t == rec.tasks[i]
         w == t.writes[1] IN
     \E e \in (IF w.op = "insert" THEN insertAnswers(roles, w.doc) ELSE replaceAnswers) :
       /\ roles' = IF ~e.ok THEN roles
                   ELSE IF w.op = "insert" THEN inserted(roles, w.doc)
                   ELSE replaced(roles, Get(w.filter), w.doc)
       /\ rec' = [rec EXCEPT !.tasks[i] = afterWrite(t, e),
                             !.clean = @ /\ e.ok]
  /\ UNCHANGED <<users, pc, req, upd, acc, ret, walk, ids, dr, boot>>

\* every mapper has settled: initConfigRoles resolves
EndRun ==
  /\ pc = "reconciling"
  /\ promiseAllSettled(rec.tasks).status # "pending"
  /\ rec' = [rec EXCEPT !.tasks = <<>>, !.runs = @ + 1]
  /\ pc' = "idle"
  /\ UNCHANGED <<roles, users, req, upd, acc, ret, walk, ids, dr, boot>>

NextReconcile ==
  \/ CallInitConfigRoles
  \/ \E i \in 1..MaxDefs : FindDone(i)
  \/ \E i \in 1..MaxDefs : FindFails(i)
  \/ \E i \in 1..MaxDefs : WriteDone(i)
  \/ EndRun

SpecReconcile == InitReconcile /\ [][NextReconcile]_vars

\* every store call that a mapper awaits is answered: the lookup returns or
\* throws, the write is performed or refused
FairReconcile ==
  \A i \in 1..MaxDefs :
    /\ WF_vars(FindDone(i) \/ FindFails(i))
    /\ WF_vars(WriteDone(i))

SpecReconcileFair == SpecReconcile /\ FairReconcile

-----------------------------------------------------------------------------
(* Vocabulary of the initConfigRoles properties                            *)

Reconciling == pc = "reconciling"
Joined == promiseAllSettled(rec.tasks)
Settled(t) == t.status \in {"fulfilled", "rejected"}
HasName(store, n) == \E i \in 1..Len(store) : store[i].shortName = n
Count(store, n) == Cardinality({i \in 1..Len(store) : store[i].shortName = n})
IdByName(store, n) ==
  store[CHOOSE i \in 1..Len(store) :
          /\ store[i].shortName = n
          /\ \A j \in 1..(i - 1) : store[j].shortName # n]._id
Warnings(t) == SelectSeq(t.logs, LAMBDA l : l.level = "warn")
Failed(t) == t.status = "rejected" \/ (t.answer # None /\ ~Get(t.answer).ok)
DistinctNames(defs) ==
  \A i, j \in 1..Len(defs) : defs[i].shortName = defs[j].shortName => i = j

\* the write the i-th mapper issues in this step, against the claim: one
\* insert when no persisted role has the short name, one replace filtered
\* by the persisted role's id when one has; a failed lookup may (mayFail) or
\* may not end the mapper without a write
OneWrite(i, mayFail) ==
  LET t == rec.tasks[i]
      u == rec'.tasks[i]
      n == t.def.shortName IN
  IF t.status = "lookup" /\ u.status # "lookup"
    THEN \/ mayFail /\ u.status = "rejected" /\ u.writes = <<>>
         \/ /\ HasName(roles, n)
            /\ u.writes = <<[op |-> "replace", filter |-> Some(IdByName(roles, n)), doc |-> t.def]>>
         \/ /\ ~HasName(roles, n)
            /\ u.writes = <<[op |-> "insert", filter |-> None, doc |-> t.def]>>
    ELSE u.writes = t.writes

\* C16 as stated: initConfigRoles issues exactly one write for each
\* definition: one insert and no replace when no persisted role has its
\* shortName, one replace filtered by the persisted record's id and no
\* insert when one has.
C16_OneWritePerDefinition ==
  [][(Reconciling /\ pc' = "reconciling")
       => \A i \in 1..Len(rec.tasks) : OneWrite(i, FALSE)]_vars

\* C16 amended: initConfigRoles issues exactly one write for each definition
\* whose lookup succeeds: one insert and no replace when the lookup finds no
\* role with its shortName, one replace filtered by the found record's id
\* and no insert when it finds one; a definition whose lookup fails gets no
\* write.
C16_OneWritePerLookup ==
  [][(Reconciling /\ pc' = "reconciling")
       => \A i \in 1..Len(rec.tasks) : OneWrite(i, TRUE)]_vars

\* one run wrote an unseen definition by insert and a seen one by replace
C16_Witness ==
  /\ Reconciling
  /\ \E i, j \in 1..Len(rec.tasks) :
       /\ rec.tasks[i].status = "fulfilled" /\ rec.tasks[i].writes[1].op = "insert"
       /\ rec.tasks[j].status = "fulfilled" /\ rec.tasks[j].writes[1].op = "replace"
       /\ Get(rec.tasks[i].answer).ok /\ Get(rec.tasks[j].answer).ok

\* C17: initConfigRoles never rejects: whatever lookups, inserts and
\* replaces fail, it resolves with one outcome per definition.
C17_NeverRejects ==
  Reconciling =>
    /\ Joined.status # "rejected"
    /\ (\A i \in 1..Len(rec.tasks) : Settled(rec.tasks[i]))
         => Joined.status = "fulfilled" /\ Len(Get(Joined.val)) = Len(rec.defs)

\* every definition of a full list failed, one of them in its lookup
C17_Witness ==
  /\ Reconciling
  /\ Len(rec.defs) = MaxDefs
  /\ Joined.status = "fulfilled"
  /\ \A i \in 1..Len(rec.tasks) : Failed(rec.tasks[i])
  /\ \E i \in 1..Len(rec.tasks) : rec.tasks[i].status = "rejected"
  /\ \E i \in 1..Len(rec.tasks) : rec.tasks[i].status = "fulfilled"

\* C18: an insert or replace that throws a duplicate key error (code 11000)
\* logs no warning; one that throws any other error logs exactly one
\* warning, which names the definition's shortName.
C18_WarnUnlessConflict ==
  Reconciling =>
    \A i \in 1..Len(rec.tasks) :
      LET t == rec.tasks[i] IN
      (t.answer # None /\ ~Get(t.answer).ok) =>
        IF Get(t.answer).code = Some(DuplicateKey)
          THEN Warnings(t) = <<>>
          ELSE /\ Len(Warnings(t)) = 1
               /\ Warnings(t)[1].shortName = t.def.shortName

\* a conflict on a replace, and another error on an insert
C18_Witness ==
  /\ Reconciling
  /\ \E i, j \in 1..Len(rec.tasks) :
       /\ rec.tasks[i].answer = Some(Thrown(DuplicateKey))
       /\ rec.tasks[i].writes[1].op = "replace"
       /\ rec.tasks[j].answer = Some(Thrown(OtherCode))
       /\ rec.tasks[j].writes[1].op = "insert"

\* the state the claim is about: a run over definitions of pairwise
\* distinct short names has completed and no store call has failed
RanClean == rec.runs >= 1 /\ rec.clean /\ DistinctNames(rec.defs)

\* C19: once initConfigRoles has run without a store failure over
\* definitions of pairwise distinct short names, every defined short name
\* has exactly one persisted record, and running it again changes nothing
\* in the persisted collection.
C19_Idempotent ==
  /\ [](RanClean => \A i \in 1..Len(rec.defs) : Count(roles, rec.defs[i].shortName) = 1)
  /\ [][RanClean => roles' = roles]_vars

\* two runs over two definitions, the first run inserting one of them
C19_Witness ==
  /\ RanClean
  /\ rec.runs = 2
  /\ Len(rec.defs) = 2
  /\ \E i \in 1..Len(roles) : roles[i]._id.v = NewIds[1]
  /\ \E i \in 1..Len(roles) : roles[i]._id.v = "a"

-----------------------------------------------------------------------------
(* initDefaultRoles: the default roles and the users preInsertHook         *)

AuthTypes == {"local", "github"}

\* defaultRolesForAuthTypes as Object.entries lists it: nothing configured,
\* one type, two types, and a type whose role is not persisted
TypeEntry(t, names) == [type |-> t, names |-> names]
TypeConfigs ==
  { <<>>,
    << TypeEntry("local", <<"superuser">>) >>,
    << TypeEntry("local", <<"authuser", "superuser">>), TypeEntry("github", <<"superuser">>) >>,
    << TypeEntry("github", <<"editor">>) >> }

\* what a roles field or a map entry holds: an array of ids, or a promise
\* (with the array it is fulfilled with, or the error it is rejected with)
Array(items) == [kind |-> "array", items |-> items, err |-> "none"]
Promise(o) ==
  [kind |-> "promise",
   items |-> IF o.status = "fulfilled" THEN Get(o.val) ELSE <<>>,
   err |-> o.err]

\* the payloads given to the hook: with or without authType, and without
\* roles, with an empty roles list or with roles
Payloads ==
  [ authType : {None} \cup {Some(t) : t \in AuthTypes},
    roles    : {None, Some(Array(<<>>)), Some(Array(<<Str("x")>>))} ]

\* shortNamesToIds(names) once its lookups have completed
shortNamesToIds(names) ==
  promiseAll([i \in 1..Len(names) |->
                settled(names[i], i, idOf(first(findByShortName(names[i]))))])

\* m[k], and the property name that a value gives as a computed key
get(m, k) == IF k \in DOMAIN m THEN Some(m[k]) ELSE None
String(v) == IF v = None THEN "undefined" ELSE "[object Promise]"

\* .reduce((m, [k, v]) => { return { [m[k]]: this.shortNamesToIds(v) } }, {})
RECURSIVE reduce(_, _)
reduce(m, entries) ==
  IF entries = <<>> THEN m
  ELSE LET k == Head(entries).type
           v == Head(entries).names IN
       reduce([key \in {String(get(m, k))} |-> Promise(shortNamesToIds(v))],
              Tail(entries))

\* the property name data.authType reads
keyOf(authType) == IF authType = None THEN "undefined" ELSE Get(authType)

\* a hook that assigns the defaults whatever roles the payload carries
preInsertHook_always(rolesForAuth, rolesforAll, data) ==
  LET forType == get(rolesForAuth, keyOf(data.authType)) IN
  [data EXCEPT !.roles =
     IF forType # None THEN forType
     ELSE IF rolesforAll # None THEN Some(Array(Get(rolesforAll)))
     ELSE Some(Array(<<>>))]

\* data => { if (!data.roles || !data.roles.length)
\*             data.roles = rolesForAuth[data.authType] || rolesforAll || [] }
preInsertHook(rolesForAuth, rolesforAll, data) ==
  IF data.roles = None \/ Len(Get(data.roles).items) = 0
    THEN LET forType == get(rolesForAuth, keyOf(data.authType)) IN
         [data EXCEPT !.roles =
            IF forType # None THEN forType
            ELSE IF rolesforAll # None THEN Some(Array(Get(rolesforAll)))
            ELSE Some(Array(<<>>))]
    ELSE data

InitDefaults ==
  /\ roles \in RoleStores
  /\ users = [p \in Principals |-> None]
  /\ pc = "idle"
  /\ req = None
  /\ upd = None
  /\ acc = None
  /\ ret = None
  /\ walk = None
  /\ ids = None
  /\ rec = None
  /\ dr \in [ defaultRoles : NameLists, forAuthTypes : TypeConfigs,
              err : {"none"}, rolesforAll : {None}, rolesForAuth : {<<>>},
              tapped : {FALSE}, given : {None}, data : {None} ]
  /\ boot = None

\* initDefaultRoles(): it throws when the global defaults do not resolve,
\* otherwise it builds the per-type map and taps users.preInsertHook
CallInitDefaultRoles ==
  /\ pc = "idle"
  /\ LET all == shortNamesToIds(dr.defaultRoles) IN
     IF all.status = "rejected"
       THEN /\ dr' = [dr EXCEPT !.err = all.err]
            /\ pc' = "failed"
       ELSE /\ dr' = [dr EXCEPT !.rolesforAll = all.val,
                                !.rolesForAuth = reduce(<<>>, dr.forAuthTypes),
                                !.tapped = TRUE]
            /\ pc' = "ready"
  /\ UNCHANGED <<roles, users, req, upd, acc, ret, walk, ids, rec, boot>>

\* the users module runs the tapped hook on a new principal's payload
PreInsertHook(data) ==
  /\ pc = "ready"
  /\ dr.tapped
  /\ dr' = [dr EXCEPT !.given = Some(data),
                      !.data = Some(preInsertHook(dr.rolesForAuth, dr.rolesforAll, data))]
  /\ UNCHANGED <<roles, users, pc, req, upd, acc, ret, walk, ids, rec, boot>>

NextDefaults ==
  \/ CallInitDefaultRoles
  \/ \E data \in Payloads : PreInsertHook(data)

SpecDefaults == InitDefaults /\ [][NextDefaults]_vars

-----------------------------------------------------------------------------
(* Vocabulary of the default role properties                               *)

HookRan == pc = "ready" /\ dr.data # None
\* the ids of the configured global defaults
GlobalIds == [i \in 1..Len(dr.defaultRoles) |-> Str(IdOfName(dr.defaultRoles[i]))]
HasTypeDefault(authType) ==
  \E i \in 1..Len(dr.forAuthTypes) : Some(dr.forAuthTypes[i].type) = authType
NoRoles(data) == data.roles = None \/ Get(data.roles).items = <<>>

\* C20: after initDefaultRoles, a new principal's payload that has no roles
\* field or an empty roles list, and whose type has no per-type default,
\* leaves the hook with roles equal to the id list of the global defaults.
C20_GlobalDefaultsApplied ==
  (HookRan /\ NoRoles(Get(dr.given)) /\ ~HasTypeDefault(Get(dr.given).authType))
    => Get(dr.data).roles = Some(Array(GlobalIds))

\* the short names configured for a type (the last entry of that type), and
\* their ids
NamesOfType(t) ==
  dr.forAuthTypes[CHOOSE i \in 1..Len(dr.forAuthTypes) :
                    /\ dr.forAuthTypes[i].type = t
                    /\ \A j \in (i + 1)..Len(dr.forAuthTypes) : dr.forAuthTypes[j].type # t].names
TypeIds(t) == [i \in 1..Len(NamesOfType(t)) |-> Str(IdOfName(NamesOfType(t)[i]))]
TypeResolves(t) == \A i \in 1..Len(NamesOfType(t)) : Persisted(NamesOfType(t)[i])

\* C21: after initDefaultRoles, a new principal's payload that carries no
\* roles and whose type has a per-type default (all of its short names
\* persisted) leaves the hook with roles equal to the id list of that
\* type's own short names: an array of ids, not the global defaults and not
\* another type's list.
C21_TypeDefaultsApplied ==
  (/\ HookRan
   /\ NoRoles(Get(dr.given))
   /\ HasTypeDefault(Get(dr.given).authType)
   /\ TypeResolves(Get(Get(dr.given).authType)))
    => Get(dr.data).roles = Some(Array(TypeIds(Get(Get(dr.given).authType))))

\* C22: the hook leaves a payload whose roles list is not empty as it was
\* given, whatever global and per-type defaults are configured.
C22_RolesKept ==
  (HookRan /\ ~NoRoles(Get(dr.given))) => dr.data = dr.given

\* a payload with roles went through a hook that has global defaults and a
\* per-type default configured for the payload's type
C22_Witness ==
  /\ HookRan
  /\ ~NoRoles(Get(dr.given))
  /\ dr.defaultRoles # <<>>
  /\ HasTypeDefault(Get(dr.given).authType)

-----------------------------------------------------------------------------
(* The guards once more: engagement, requester, order of the checks        *)

\* the guard did nothing: no error, no log, no lookup, no disavowUser
NoOp(o) == o.err = "none" /\ o.logs = <<>> /\ o.calls = <<>> /\ o.disavowed = <<>>

\* C23: onUpdateRoles does nothing (no rejection, log, store lookup or
\* session invalidation) unless the phase flag says pre-commit and the
\* request is a DELETE or carries a roles field; when both hold the checks
\* are applied to a requester that is not super (the guard fails or has
\* made its lookups), also for a DELETE without a roles field.
C23_NoOpUnlessEngaged ==
  Hooked =>
    /\ ~GuardEngaged(Get(req)) => NoOp(Get(upd))
    /\ (GuardEngaged(Get(req)) /\ NonSuper(Get(req)))
         => (Get(upd).err # "none" \/ Get(upd).calls # <<>>)

\* a DELETE without roles in the pre-commit phase had the checks applied
C23_Witness ==
  /\ Hooked
  /\ Get(req).method = "DELETE" /\ Get(req).roles = None
  /\ GuardEngaged(Get(req)) /\ NonSuper(Get(req)) /\ HoldsAssign(Get(req))
  /\ Get(upd).err # "none"

\* C24 as stated: a modifying request of a super requester against a super
\* target is not rejected by onCheckUserAccess.
C24_SuperRequesterAllowed ==
  (Checked /\ Get(req).modifying /\ Get(req).auth.isSuper /\ TargetIsSuper(Get(req)))
    => Get(acc).err # "UNAUTHORISED"

\* the reason and the lookups of the first check that fails for a request
FirstFailing(r) ==
  IF ~HoldsAssign(r) THEN "assign role"
  ELSE IF AssignsSuper(r) THEN "assign superuser"
  ELSE "modify superuser"
LookupsUpTo(reason) ==
  IF reason = "assign role" THEN <<>>
  ELSE IF reason = "assign superuser" THEN <<"roles.find">>
  ELSE <<"roles.find", "users.find", "roles.find">>

\* C25: for a requester that is not super the checks run in the order
\* assign:roles scope, super role among the assigned ids, super target, and
\* stop at the first that fails: a rejected request has logged exactly one
\* error event, with the requester's id and the reason of the first failing
\* check, and has made no lookup of a later check; a request that is not
\* rejected has logged nothing.
C25_FirstFailingCheck ==
  (Hooked /\ GuardEngaged(Get(req)) /\ NonSuper(Get(req)))
    => IF Get(upd).err = "UNAUTHORISED"
         THEN /\ Get(upd).logs =
                   << <<"error", "UNAUTHORISED", Str(Get(req).auth.user.v),
                        FirstFailing(Get(req))>> >>
              /\ Get(upd).calls = LookupsUpTo(FirstFailing(Get(req)))
              /\ Get(upd).disavowed = <<>>
         ELSE Get(upd).logs = <<>>

\* a request failing the second and the third check was rejected
C25_Witness ==
  /\ Hooked /\ GuardEngaged(Get(req)) /\ NonSuper(Get(req))
  /\ HoldsAssign(Get(req)) /\ AssignsSuper(Get(req)) /\ TargetIsSuper(Get(req))
  /\ Get(upd).err = "UNAUTHORISED"
  /\ Len(Get(upd).logs) = 1

\* C26: a DELETE in the pre-commit phase that carries no roles field, from
\* a requester that is not super and holds assign:roles, against a target
\* that is not a super target, ends without any error and invalidates the
\* target's sessions.
C26_DeleteWithoutRolesPasses ==
  (/\ Hooked
   /\ Get(req).method = "DELETE" /\ Get(req).roles = None
   /\ GuardEngaged(Get(req)) /\ NonSuper(Get(req)) /\ HoldsAssign(Get(req))
   /\ TargetExists(Get(req)) /\ ~TargetIsSuper(Get(req)))
    => /\ Get(upd).err = "none"
       /\ Len(Get(upd).disavowed) = 1

-----------------------------------------------------------------------------
(* initConfigRoles: the mappers do not wait for one another                *)

EverySettled(tasks) == \A i \in 1..Len(tasks) : Settled(tasks[i])

\* C27: whatever a mapper's lookup, insert or replace did, every other
\* mapper can still take its own next step (its lookup can complete, its
\* write can be answered); initConfigRoles resolves only when every mapper
\* has settled, and every run reaches that point.
C27_SettleAll ==
  /\ [](Reconciling =>
          \A i \in 1..Len(rec.tasks) :
            /\ rec.tasks[i].status = "lookup" => ENABLED FindDone(i)
            /\ rec.tasks[i].status = "write" => ENABLED WriteDone(i))
  /\ [][(Reconciling /\ pc' = "idle") => EverySettled(rec.tasks)]_vars
  /\ (Reconciling ~> (Reconciling /\ EverySettled(rec.tasks)))

\* the lookup of one definition failed and the other was written all the same
C27_Witness ==
  /\ Reconciling
  /\ EverySettled(rec.tasks)
  /\ Len(rec.tasks) = 2
  /\ rec.tasks[1].status = "rejected"
  /\ rec.tasks[2].status = "fulfilled"
  /\ Get(rec.tasks[2].answer).ok

\* the mappers of the run that looked up short name n, found nothing, issued
\* an insert and had it answered by the store's unique index alone
Racers(n) ==
  {i \in 1..Len(rec.tasks) :
     /\ rec.tasks[i].def.shortName = n
     /\ rec.tasks[i].status = "fulfilled"
     /\ rec.tasks[i].doc = None
     /\ rec.tasks[i].writes[1].op = "insert"
     /\ Get(rec.tasks[i].answer).code # Some(OtherCode)}
Raced(i, j) ==
  i # j /\ \E n \in Names : i \in Racers(n) /\ j \in Racers(n)

\* C28: when reconciliations of one unseen shortName race (two or more
\* mappers whose lookups all find nothing and which all insert), and the
\* store refuses an insert only for its unique index, exactly one insert
\* succeeds, every other one gets the conflict error and logs no warning,
\* initConfigRoles resolves, and one record with that shortName is persisted.
C28_OneInsertWins ==
  Reconciling =>
    \A n \in Names :
      Cardinality(Racers(n)) >= 2 =>
        /\ Cardinality({i \in Racers(n) : Get(rec.tasks[i].answer).ok}) = 1
        /\ \A k \in Racers(n) :
             ~Get(rec.tasks[k].answer).ok =>
               /\ Get(rec.tasks[k].answer).code = Some(DuplicateKey)
               /\ Warnings(rec.tasks[k]) = <<>>
        /\ Count(roles, n) = 1
        /\ (EverySettled(rec.tasks) => Joined.status = "fulfilled")

\* two definitions of one short name raced and the second one's insert won
C28_Witness ==
  /\ Reconciling
  /\ Len(rec.tasks) = 2
  /\ Raced(1, 2)
  /\ rec.tasks[1].def # rec.tasks[2].def
  /\ Get(rec.tasks[2].answer).ok
  /\ rec.tasks[1].answer = Some(Thrown(DuplicateKey))

-----------------------------------------------------------------------------
(* init: reconcile, set up the defaults, register the guards               *)

\* the global default lists init is booted with
BootDefaults == { <<>>, <<"authuser">>, <<"editor">>, <<"authuser", "superuser">> }

\* o[k] of a configured object, listed as Object.entries lists it
property(entries, k) ==
  IF \E i \in 1..Len(entries) : entries[i].type = k
    THEN Some(entries[CHOOSE i \in 1..Len(entries) : entries[i].type = k].names)
    ELSE None

\* this.getConfig('defaultRolesForAuthTypes').length ||
\*   this.getConfig('defaultRoles').length
hasRoles(defaultRolesForAuthTypes, defaultRoles) ==
  IF property(defaultRolesForAuthTypes, "length") # None
    THEN TRUE
    ELSE Len(defaultRoles) # 0

\* the promises the fold of initDefaultRoles creates, one per entry, that
\* are rejected; nothing awaits them or attaches a handler to them
rejections(entries) ==
  Cardinality({i \in 1..Len(entries) :
                 shortNamesToIds(entries[i].names).status = "rejected"})

\* what the runtime does with a rejected promise that has no handler: the
\* host has installed an unhandledRejection listener, or the process ends
UnhandledRejections == {"listened", "exit"}

\* the hooks of the sibling modules and the handlers init taps on them
Tap(hook, handler) == [hook |-> hook, handler |-> handler]

at(position) == boot # None /\ boot.exit = None /\ boot.at = position

InitBoot ==
  /\ roles \in RecStores
  /\ users = [p \in Principals |-> None]
  /\ pc = "idle"
  /\ req = None
  /\ upd = None
  /\ acc = None
  /\ ret = None
  /\ walk = None
  /\ ids = None
  /\ rec \in [defs : DefLists, tasks : {<<>>}, runs : {0}, clean : {TRUE}]
  /\ dr \in [ defaultRoles : BootDefaults, forAuthTypes : TypeConfigs,
              err : {"none"}, rolesforAll : {None}, rolesForAuth : {<<>>},
              tapped : {FALSE}, given : {None}, data : {None} ]
  /\ boot = [at |-> "super", logs |-> <<>>, taps |-> <<>>, unhandled |-> 0,
             exit |-> None]

\* await super.init()
SuperInit ==
  /\ at("super")
  /\ boot' = [boot EXCEPT !.at = "try"]
  /\ UNCHANGED <<roles, users, pc, req, upd, acc, ret, walk, ids, rec, dr>>

\* await this.initConfigRoles(): the call; its mappers and its join are the
\* steps of initConfigRoles
BootInitConfigRoles ==
  /\ at("try")
  /\ rec.runs = 0
  /\ CallInitConfigRoles

\* const hasRoles = ...; if (hasRoles) await this.initDefaultRoles(), and the
\* catch of the try block
TryInitDefaultRoles ==
  /\ at("try")
  /\ pc = "idle"
  /\ rec.runs = 1
  /\ IF ~hasRoles(dr.forAuthTypes, dr.defaultRoles)
       THEN /\ boot' = [boot EXCEPT !.at = "waitForModule"]
            /\ dr' = dr
       ELSE LET all == shortNamesToIds(dr.defaultRoles) IN
            IF all.status = "rejected"
              THEN /\ dr' = [dr EXCEPT !.err = all.err]
                   /\ boot' = [boot EXCEPT !.at = "waitForModule",
                                           !.logs = Append(@, <<"error", all.err>>)]
              ELSE /\ dr' = [dr EXCEPT !.rolesforAll = all.val,
                                       !.rolesForAuth = reduce(<<>>, dr.forAuthTypes),
                                       !.tapped = TRUE]
                   /\ boot' = [boot EXCEPT !.at = "waitForModule",
                                           !.unhandled = rejections(dr.forAuthTypes)]
  /\ UNCHANGED <<roles, users, pc, req, upd, acc, ret, walk, ids, rec>>

\* a promise of the fold is rejected and nothing handles it
UnhandledRejection ==
  /\ boot # None
  /\ boot.exit = None
  /\ boot.unhandled > 0
  /\ \E o \in UnhandledRejections :
       boot' = IF o = "exit" THEN [boot EXCEPT !.exit = Some(1)]
               ELSE [boot EXCEPT !.unhandled = @ - 1]
  /\ UNCHANGED <<roles, users, pc, req, upd, acc, ret, walk, ids, rec, dr>>

\* const [authlocal, users] = await this.app.waitForModule('auth-local', 'users')
WaitForModule ==
  /\ at("waitForModule")
  /\ boot' = [boot EXCEPT !.at = "registerHook"]
  /\ UNCHANGED <<roles, users, pc, req, upd, acc, ret, walk, ids, rec, dr>>

\* authlocal.registerHook.tap(this.onUpdateRoles.bind(this))
TapRegisterHook ==
  /\ at("registerHook")
  /\ boot' = [boot EXCEPT !.at = "requestHook",
                          !.taps = Append(@, Tap("authlocal.registerHook", "onUpdateRoles"))]
  /\ UNCHANGED <<roles, users, pc, req, upd, acc, ret, walk, ids, rec, dr>>

\* users.requestHook.tap(this.onUpdateRoles.bind(this))
TapRequestHook ==
  /\ at("requestHook")
  /\ boot' = [boot EXCEPT !.at = "accessCheckHook",
                          !.taps = Append(@, Tap("users.requestHook", "onUpdateRoles"))]
  /\ UNCHANGED <<roles, users, pc, req, upd, acc, ret, walk, ids, rec, dr>>

\* users.accessCheckHook.tap(this.onCheckUserAccess, this); init resolves
TapAccessCheckHook ==
  /\ at("accessCheckHook")
  /\ boot' = [boot EXCEPT !.at = "done",
                          !.taps = Append(@, Tap("users.accessCheckHook", "onCheckUserAccess"))]
  /\ UNCHANGED <<roles, users, pc, req, upd, acc, ret, walk, ids, rec, dr>>

NextBoot ==
  \/ SuperInit
  \/ BootInitConfigRoles
  \/ \E i \in 1..MaxDefs : FindDone(i)
  \/ \E i \in 1..MaxDefs : FindFails(i)
  \/ \E i \in 1..MaxDefs : WriteDone(i)
  \/ EndRun
  \/ TryInitDefaultRoles
  \/ UnhandledRejection
  \/ WaitForModule
  \/ TapRegisterHook
  \/ TapRequestHook
  \/ TapAccessCheckHook

SpecBoot == InitBoot /\ [][NextBoot]_vars

\* the event loop runs every continuation that is ready
SpecBootFair == SpecBoot /\ WF_vars(NextBoot)

-----------------------------------------------------------------------------
(* Vocabulary of the boot properties                                       *)

AfterTry == boot.at \notin {"super", "try"}
DefaultsConfigured == dr.defaultRoles # <<>> \/ dr.forAuthTypes # <<>>
Tapped(hook, handler) ==
  \E i \in 1..Len(boot.taps) : boot.taps[i] = Tap(hook, handler)
GuardsRegistered ==
  /\ Tapped("authlocal.registerHook", "onUpdateRoles")
  /\ Tapped("users.requestHook", "onUpdateRoles")
  /\ Tapped("users.accessCheckHook", "onCheckUserAccess")

\* C29: once init is past reconciliation and the set-up of the defaults,
\* the preInsertHook is tapped if the global default list is non-empty or
\* the per-type mapping has an entry, and is not tapped if neither is.
C29_HookInstalledIffConfigured ==
  AfterTry => (dr.tapped <=> DefaultsConfigured)

\* C30: whatever fails while the roles are reconciled and the defaults are
\* set up, the process is not ended, and the three guards get tapped.
C30_BootResilient ==
  /\ [](boot.exit = None)
  /\ <>GuardsRegistered

-----------------------------------------------------------------------------
(* initConfigRoles: what a replace leaves in the store                     *)

\* the i-th mapper's replace is performed by this step
Replaces(i) ==
  /\ Reconciling
  /\ i \in 1..Len(rec.tasks)
  /\ rec.tasks[i].status = "write"
  /\ rec.tasks[i].writes[1].op = "replace"
  /\ (rec.tasks[i].status)' = "fulfilled"
  /\ (Get(rec.tasks[i].answer).ok)'

\* C31: when the replace of a definition whose shortName exists succeeds,
\* the record found keeps its place and its id and has, field for field,
\* the values of the definition and no other field (an extends the old
\* record had and the definition has not is gone); no other record changes.
C31_FullReplace ==
  [][\A i \in 1..MaxDefs :
       Replaces(i) =>
         LET d == rec.tasks[i].writes[1].doc
             _id == Get(rec.tasks[i].writes[1].filter) IN
         /\ Len(roles') = Len(roles)
         /\ \E k \in 1..Len(roles) : roles[k]._id = _id
         /\ \A k \in 1..Len(roles) :
              IF roles[k]._id = _id
                THEN /\ roles'[k]._id = _id
                     /\ DOMAIN roles'[k] = DOMAIN d \cup {"_id"}
                     /\ \A f \in DOMAIN d : roles'[k][f] = d[f]
                ELSE roles'[k] = roles[k]]_vars

\* the record of authuser had an extends; after the replace by a definition
\* without one it has none, under its old id
C31_Witness ==
  /\ Reconciling
  /\ \E i \in 1..Len(rec.tasks) :
       /\ rec.tasks[i].status = "fulfilled"
       /\ rec.tasks[i].doc # None
       /\ Get(rec.tasks[i].doc).extends # None
       /\ Get(rec.tasks[i].answer).ok
       /\ \E k \in 1..Len(roles) :
            /\ roles[k]._id = Get(rec.tasks[i].doc)._id
            /\ roles[k].extends = None
            /\ roles[k].scopes = rec.tasks[i].def.scopes

-----------------------------------------------------------------------------
(* initDefaultRoles step by step: roleCache and the calls that fill it     *)

\* a call of shortNamesToIds: its names and the promises of its mappers
Call(names, cache) == [names |-> names, tasks |-> dispatch(names, cache, <<>>)]

\* the calls the fold starts, one per entry, all before any lookup completes
typeCalls(entries, cache) == [i \in 1..Len(entries) |-> Call(entries[i].names, cache)]

\* the map the fold returns, each value given as the number of the call whose
\* promise it is (call 1 is the one for the global defaults)
RECURSIVE fold(_, _, _)
fold(m, entries, n) ==
  IF entries = <<>> THEN m
  ELSE fold([key \in {String(get(m, Head(entries).type))} |-> n + 1],
            Tail(entries), n + 1)

\* rolesForAuth as the hook reads it now: each promise in its present state
rolesForAuthNow ==
  [key \in DOMAIN dr.rolesForAuth |->
     Promise(promiseAll(ids.calls[dr.rolesForAuth[key]].tasks))]

InitCache ==
  /\ roles \in RoleStores
  /\ users = [p \in Principals |-> None]
  /\ pc = "idle"
  /\ req = None
  /\ upd = None
  /\ acc = None
  /\ ret = None
  /\ walk = None
  /\ ids = [roleCache |-> emptyCache, calls |-> <<>>]
  /\ rec = None
  /\ dr \in [ defaultRoles : NameLists, forAuthTypes : TypeConfigs,
              err : {"none"}, rolesforAll : {None}, rolesForAuth : {<<>>},
              tapped : {FALSE}, given : {None}, data : {None} ]
  /\ boot = None

\* this.roleCache = {}; this.shortNamesToIds(defaultRoles) up to the await
BeginInitDefaultRoles ==
  /\ pc = "idle"
  /\ ids' = [roleCache |-> emptyCache,
             calls |-> << Call(dr.defaultRoles, emptyCache) >>]
  /\ pc' = "rolesforAll"
  /\ UNCHANGED <<roles, users, req, upd, acc, ret, walk, rec, dr, boot>>

\* the lookup of the i-th mapper of call c completes: the mapper stores the
\* role in roleCache and returns its id
MapperLookupDone(c, i) ==
  /\ ids # None
  /\ c \in 1..Len(ids.calls)
  /\ i \in 1..Len(ids.calls[c].tasks)
  /\ ids.calls[c].tasks[i].status = "pending"
  /\ LET name == ids.calls[c].names[i]
         role == first(findByShortName(name)) IN
     ids' = [ids EXCEPT
               !.roleCache[name] = role,
               !.calls[c].tasks[i] =
                  settled(name, settledCount(ids.calls[c].tasks) + 1, idOf(role))]
  /\ UNCHANGED <<roles, users, pc, req, upd, acc, ret, walk, rec, dr, boot>>

\* await this.shortNamesToIds(defaultRoles) resumes: it throws, or the fold
\* starts one call per entry and waitForModule('users') is awaited
ResumeRolesforAll ==
  /\ pc = "rolesforAll"
  /\ LET all == promiseAll(ids.calls[1].tasks) IN
     /\ all.status # "pending"
     /\ IF all.status = "rejected"
          THEN /\ dr' = [dr EXCEPT !.err = all.err]
               /\ ids' = ids
               /\ pc' = "failed"
          ELSE /\ dr' = [dr EXCEPT !.rolesforAll = all.val,
                                   !.rolesForAuth = fold(<<>>, dr.forAuthTypes, 1)]
               /\ ids' = [ids EXCEPT !.calls = @ \o typeCalls(dr.forAuthTypes, ids.roleCache)]
               /\ pc' = "users"
  /\ UNCHANGED <<roles, users, req, upd, acc, ret, walk, rec, boot>>

\* await this.app.waitForModule('users') resumes: the hook is tapped and
\* initDefaultRoles returns
TapPreInsertHook ==
  /\ pc = "users"
  /\ dr' = [dr EXCEPT !.tapped = TRUE]
  /\ pc' = "ready"
  /\ UNCHANGED <<roles, users, req, upd, acc, ret, walk, ids, rec, boot>>

\* the users module runs the tapped hook on a new principal's payload
RunPreInsertHook(data) ==
  /\ pc = "ready"
  /\ dr.tapped
  /\ dr' = [dr EXCEPT !.given = Some(data),
                      !.data = Some(preInsertHook(rolesForAuthNow, dr.rolesforAll, data))]
  /\ UNCHANGED <<roles, users, pc, req, upd, acc, ret, walk, ids, rec, boot>>

NextCache ==
  \/ BeginInitDefaultRoles
  \/ \E c \in 1..(1 + MaxNames), i \in 1..MaxNames : MapperLookupDone(c, i)
  \/ ResumeRolesforAll
  \/ TapPreInsertHook
  \/ \E data \in Payloads : RunPreInsertHook(data)

SpecCache == InitCache /\ [][NextCache]_vars

\* initDefaultRoles has returned and the hook is installed
Installed == pc = "ready" /\ dr.tapped

\* C32: once initDefaultRoles has returned with the hook installed, no step
\* changes roleCache, the global default list or the per-type map (the
\* promises it holds included), a run of the hook least of all.
C32_CacheReadOnlyAfterInit ==
  [][Installed =>
       /\ ids.roleCache' = ids.roleCache
       /\ dr.rolesforAll' = dr.rolesforAll
       /\ rolesForAuthNow' = rolesForAuthNow]_vars

-----------------------------------------------------------------------------
(* The guards and the session of the target                                *)

\* the disavowUser calls made for the request in flight, by either guard
Disavowals ==
  Get(upd).disavowed \o (IF acc = None THEN <<>> ELSE Get(acc).disavowed)

\* C33: when onUpdateRoles rejects the request with UNAUTHORISED, disavowUser
\* has not been called for it and is not called while it is in flight; a
\* call of disavowUser is found only on a request that onUpdateRoles let
\* through, its checks passed or skipped.
C33_NoDisavowOnReject ==
  Hooked =>
    /\ Get(upd).err = "UNAUTHORISED" => Disavowals = <<>>
    /\ Disavowals # <<>> =>
         /\ Get(upd).err = "none"
         /\ GuardEngaged(Get(req))
         /\ (NonSuper(Get(req)) => HoldsAssign(Get(req)))

\* a PUT of a requester without assign:roles is rejected, the target's
\* session left alone
C33_Witness ==
  /\ Hooked
  /\ GuardEngaged(Get(req))
  /\ NonSuper(Get(req))
  /\ Get(req).method = "PUT"
  /\ Get(req).params_id # None
  /\ Get(upd).err = "UNAUTHORISED"
  /\ Get(upd).disavowed = <<>>

-----------------------------------------------------------------------------
(* The guard and the scopes of the roles it lets through                   *)

\* the principals at the start: u1 holds authuser, u2 is not persisted
GrantUsers ==
  [p \in Principals |-> IF p = "u1" THEN Some([roles |-> <<Oid("a")>>]) ELSE None]

\* the requests of this model: the two ids read for disavowUser play no part
\* in the checks or in the scopes, and are left out
GrantRequests == {r \in Requests : r.params_id = None /\ r.body_id = None}

InitGrant ==
  /\ roles \in ChainStores
  /\ users = GrantUsers
  /\ pc = "idle"
  /\ req = None
  /\ upd = None
  /\ acc = None
  /\ ret = None
  /\ walk = None
  /\ ids = None
  /\ rec = None
  /\ dr = None
  /\ boot = None

\* getScopesForRole(id) for the k-th role id of a request that onUpdateRoles
\* let through, as the scopes of the principal are resolved from its roles
ResolveAssigned(k) ==
  /\ pc = "hooked"
  /\ Get(upd).err = "none"
  /\ IsSome(Get(req).roles)
  /\ k \in 1..Len(Get(Get(req).roles))
  /\ walk' = Some(begin(roles, Get(Get(req).roles)[k]))
  /\ pc' = "walking"
  /\ UNCHANGED <<roles, users, req, upd, acc, ret, ids, rec, dr, boot>>

\* the scopes are resolved: the next request may come
EndGrant ==
  /\ pc = "walking"
  /\ Get(walk).status # "running"
  /\ walk' = None
  /\ req' = None
  /\ upd' = None
  /\ pc' = "idle"
  /\ UNCHANGED <<roles, users, acc, ret, ids, rec, dr, boot>>

NextGrant ==
  \/ \E r \in GrantRequests : RequestHook(r)
  \/ Respond
  \/ \E k \in 1..MaxRoles : ResolveAssigned(k)
  \/ Iterate
  \/ EndGrant

SpecGrant == InitGrant /\ [][NextGrant]_vars

\* the request in flight passed onUpdateRoles, made by a requester that is
\* not super
PassedByNonSuper ==
  /\ req # None
  /\ upd # None
  /\ Get(upd).err = "none"
  /\ GuardEngaged(Get(req))
  /\ NonSuper(Get(req))

\* C34: for every role id assigned by a request of a requester that is not
\* super and that passed onUpdateRoles, the scope list getScopesForRole
\* resolves over the extends chain does not hold "*:*", also when a
\* persisted role extends the super role.
C34_NoWildcardByInheritance ==
  (PassedByNonSuper /\ WalkEnded /\ Get(walk).status = "returned")
    => ~includes(Get(walk).scopes, "*:*")

====
